---- MODULE Spec2Model ----
(***************************************************************************)
(* PieZense (src/piezense/piezense.py): a registry of pneumatic systems,   *)
(* the reconnect loop _connect() that asyncio.run() drives on the thread   *)
(* that called connect(), the BLE transport (bleak) as the environment of  *)
(* that loop, and the pressure store returned by getPressureReadings().    *)
(***************************************************************************)
EXTENDS Integers, Sequences, FiniteSets, TLC

\* ------------------------------------------------------------------ bounds
MaxSystems == 2          \* addSystem calls explored

\* Bluetooth names passed to addSystem.
Names == {"PodA", "PodB", "PodC"}

\* The channel_count passed to addSystem with each name.
Channels(name) == IF name = "PodB" THEN 2 ELSE 1

\* What the transport (bleak) does for a name:
\*   absent   : find_device_by_name always returns None
\*   reliable : find_device_by_name finds it and client.connect() succeeds
\*   flaky    : any outcome, an exception raised by bleak included
Transport(name) ==
    CASE name = "PodA" -> "absent"
      [] name = "PodB" -> "reliable"
      [] OTHER -> "flaky"

VARIABLES
    systems,      \* self._systems: sequence of _System records
    heap,         \* list objects: heap[0] is self._pressures (a list of
                  \* references), heap[k] the inner list of readings k
    supPc,        \* position of the coroutine _connect()
    cur,          \* 1-based position of the for loop of _connect()
    callerPc,     \* the thread that calls addSystem() and connect()
    inflight,     \* per system: transport attempts (scan, connect) in flight
    retIndex,     \* value returned by the last addSystem(), -1 before
    retAll,       \* value returned by the last isEverythingConnected()
    retRef,       \* reference returned by the last getPressureReadings()
    printed,      \* the last line _connect() has printed
    waited,       \* per system: time slept since its last failed attempt,
                  \* -1 when no failed attempt is waiting for its retry
    sleeps,       \* sleeps completed in the current pass of the while loop
    api,          \* the last call of a forwarding or mode method
    fwdReturned   \* addForwarding requests that returned without an error
                  \* since forwarding was last cleared

vars == <<systems, heap, supPc, cur, callerPc, inflight, retIndex, retAll,
          retRef, printed, waited, sleeps, api, fwdReturned>>

\* ------------------------------------------------------- _System, client
\* system.client is None, or a BleakClient that is freshly built (never
\* connected), connected, or one whose session has dropped.
NoClient == "None"

\* Python truthiness of system.client
Truthy(c) == c # NoClient

\* BleakClient.is_connected
is_connected(c) == c = "up"

\* _System.__init__
System(system_name, channel_count) ==
    [system_name |-> system_name, channel_count |-> channel_count,
     client |-> NoClient]

\* faulty variant: every system is scanned on its turn
AlwaysNeedsConnect(system) == TRUE

\* line 59: never connected or disconnected
NeedsConnect(system) ==
    ~Truthy(system.client) \/ ~is_connected(system.client)

\* ------------------------------------------------------------- addSystem
\* faulty variant: the new system is put in front of the list
PrependSystem(sys, system_name, channel_count) ==
    <<System(system_name, channel_count)>> \o sys

\* line 44: self._systems.append(self._System(...))
AppendSystem(sys, system_name, channel_count) ==
    Append(sys, System(system_name, channel_count))

\* faulty variant: the new inner list is put in front of the store
PrependPressures(h, channel_count) ==
    LET newId == Len(h[0]) + 1
    IN [k \in 0..newId |->
          IF k = 0 THEN <<newId>> \o h[0]
          ELSE IF k = newId THEN [c \in 1..channel_count |-> 0]
          ELSE h[k]]

\* faulty variant: [channel_count]*channel_count
AppendPressuresCount(h, channel_count) ==
    LET newId == Len(h[0]) + 1
    IN [k \in 0..newId |->
          IF k = 0 THEN Append(h[0], newId)
          ELSE IF k = newId THEN [c \in 1..channel_count |-> channel_count]
          ELSE h[k]]

\* line 45: self._pressures.append([0]*channel_count): a new inner list object
\* is allocated and a reference to it is appended to the object heap[0]
AppendPressures(h, channel_count) ==
    LET newId == Len(h[0]) + 1
    IN [k \in 0..newId |->
          IF k = 0 THEN Append(h[0], newId)
          ELSE IF k = newId THEN [c \in 1..channel_count |-> 0]
          ELSE h[k]]

\* the list of lists a reference to an outer list denotes
Deref(h, ref) == [i \in 1..Len(h[ref]) |-> h[h[ref][i]]]

\* self._pressures is the object 0
PressuresRef == 0

AddSystem(system_name, channel_count) ==
    /\ callerPc \in {"ready", "raised"}
    /\ Len(systems) < MaxSystems
    /\ systems' = AppendSystem(systems, system_name, channel_count)
    /\ heap' = AppendPressures(heap, channel_count)
    /\ inflight' = Append(inflight, 0)
    /\ retIndex' = Len(systems') - 1
    /\ waited' = Append(waited, -1)
    /\ UNCHANGED <<supPc, cur, callerPc, retAll, retRef,
                   printed, sleeps, api, fwdReturned>>

\* --------------------------------------------------------------- connect
\* line 55: asyncio.run(self._connect()) runs the coroutine on the calling
\* thread and returns only when the coroutine ends; the docstring asks for a
\* single call.
Connect ==
    /\ callerPc = "ready"
    /\ supPc = "idle"
    /\ callerPc' = "in_connect"
    /\ supPc' = "for"
    /\ cur' = 1
    /\ UNCHANGED <<systems, heap, inflight, retIndex, retAll,
                   retRef,
                   printed, waited, sleeps, api, fwdReturned>>

\* -------------------------------------------------------------- _connect
\* faulty variant: the scan is started and not awaited
ScanNotAwaited == "sleep"

\* line 61: the coroutine is suspended in `await find_device_by_name`
ScanAwaited == "scan"

\* faulty variant: a failed connect keeps the client
KeepClient(c) == c

\* line 73: system.client = None
ClientAfterFailedConnect(c) == NoClient

\* faulty variant: the loop passes over the next system
SkipIndex(c) == c + 2

\* line 58: the for loop moves to the next system after the sleep
NextIndex(c) == c + 1

\* faulty variant: the sleep of the commented-out reconnect loop (line 242)
OldSleepSeconds == 11

\* line 74: the argument of asyncio.sleep
SleepSeconds == 10

\* faulty variant: the sleep is inside the `if`, a system that needs no
\* attempt is passed without sleeping
SkipTurnNoSleep(c) == [pc |-> "for", cur |-> c + 1]

\* lines 59, 74: a system that needs no attempt: its turn is the sleep alone
SkipTurn(c) == [pc |-> "sleep", cur |-> c]

\* a failed attempt of system i starts to wait for its retry
Failed(i) == [waited EXCEPT ![i] = 0]

\* the time of one sleep passes for every system that waits for its retry
Slept(w) ==
    [i \in 1..Len(w) |-> IF w[i] >= 0 THEN w[i] + SleepSeconds ELSE w[i]]

SetClient(i, c) == [systems EXCEPT ![i].client = c]
Started(i) == [inflight EXCEPT ![i] = @ + 1]
Returned(i) == [inflight EXCEPT ![i] = @ - 1]

\* line 57: while(True): the for loop is exhausted and starts again
PassRestart ==
    /\ supPc = "for"
    /\ cur > Len(systems)
    /\ cur' = 1
    /\ sleeps' = 0
    /\ UNCHANGED <<systems, heap, supPc, callerPc, inflight,
                   retIndex, retAll, retRef,
                   printed, waited, api, fwdReturned>>

\* lines 58-61 and 74: the turn of system cur
ForStep ==
    /\ supPc = "for"
    /\ cur <= Len(systems)
    /\ IF NeedsConnect(systems[cur])
       THEN /\ inflight' = Started(cur)
            /\ supPc' = ScanAwaited
            /\ printed' = "Need device"
            /\ waited' = [waited EXCEPT ![cur] = -1]
            /\ UNCHANGED cur
       ELSE /\ supPc' = SkipTurn(cur).pc
            /\ cur' = SkipTurn(cur).cur
            /\ UNCHANGED <<inflight, printed, waited>>
    /\ UNCHANGED <<systems, heap, callerPc, retIndex, retAll,
                   retRef,
                   sleeps, api, fwdReturned>>

Profile(i) == Transport(systems[i].system_name)

\* lines 61-66: the scan returns a device; a BleakClient is built and the
\* coroutine is suspended in `await system.client.connect()`
ScanFound ==
    /\ supPc = "scan"
    /\ Profile(cur) # "absent"
    /\ systems' = SetClient(cur, "fresh")
    /\ supPc' = "connecting"
    /\ printed' = "Found device"
    /\ UNCHANGED <<heap, cur, callerPc, inflight, retIndex, retAll,
                   retRef,
                   waited, sleeps, api, fwdReturned>>

\* lines 61-63, 74: the scan returns None
ScanNone ==
    /\ supPc = "scan"
    /\ Profile(cur) # "reliable"
    /\ inflight' = Returned(cur)
    /\ supPc' = "sleep"
    /\ printed' = "Scanned for device"
    /\ waited' = Failed(cur)
    /\ UNCHANGED <<systems, heap, cur, callerPc, retIndex, retAll,
                   retRef,
                   sleeps, api, fwdReturned>>

\* an exception leaves _connect (no try), asyncio.run and connect()
Raise ==
    /\ inflight' = Returned(cur)
    /\ supPc' = "raised"
    /\ callerPc' = "raised"
    /\ UNCHANGED <<systems, heap, cur, retIndex, retAll, retRef,
                   printed, waited, sleeps, api, fwdReturned>>

\* line 61: find_device_by_name raises (BleakError)
ScanRaise ==
    /\ supPc = "scan"
    /\ Profile(cur) = "flaky"
    /\ Raise

\* lines 66-70, 74: connect() returns and the session is connected
ConnectOk ==
    /\ supPc = "connecting"
    /\ systems' = SetClient(cur, "up")
    /\ inflight' = Returned(cur)
    /\ supPc' = "sleep"
    /\ printed' = "Services"
    /\ UNCHANGED <<heap, cur, callerPc, retIndex, retAll, retRef,
                   waited, sleeps, api, fwdReturned>>

\* lines 66-67, 71-74: connect() returns and the session is not connected
ConnectFail ==
    /\ supPc = "connecting"
    /\ Profile(cur) = "flaky"
    /\ systems' = SetClient(cur, ClientAfterFailedConnect(systems[cur].client))
    /\ inflight' = Returned(cur)
    /\ supPc' = "sleep"
    /\ printed' = "Failed to connect to device"
    /\ waited' = Failed(cur)
    /\ UNCHANGED <<heap, cur, callerPc, retIndex, retAll, retRef,
                   sleeps, api, fwdReturned>>

\* line 66: connect() raises (BleakError, TimeoutError)
ConnectRaise ==
    /\ supPc = "connecting"
    /\ Profile(cur) = "flaky"
    /\ Raise

\* line 74: await asyncio.sleep(10) returns
SleepDone ==
    /\ supPc = "sleep"
    /\ cur' = NextIndex(cur)
    /\ supPc' = "for"
    /\ sleeps' = sleeps + 1
    /\ waited' = Slept(waited)
    /\ UNCHANGED <<systems, heap, callerPc, inflight, retIndex,
                   retAll, retRef,
                   printed, api, fwdReturned>>

\* the transport reports that the session of system i is closed
Drop(i) ==
    /\ is_connected(systems[i].client)
    /\ systems' = SetClient(i, "dropped")
    /\ UNCHANGED <<heap, supPc, cur, callerPc, inflight, retIndex,
                   retAll, retRef,
                   printed, waited, sleeps, api, fwdReturned>>

\* --------------------------------------------------------- subscriptions
\* the characteristics of a PieZense system that notify pressure telemetry
NotifySources == {"pressure"}

\* the characteristics client c has been subscribed to: lines 66-70 read
\* client.services and call start_notify for none of them
Subscriptions(c) == {}

\* every telemetry notification source of the system is subscribed
Subscribed(system) == NotifySources \subseteq Subscriptions(system.client)

\* ------------------------------------------------- isEverythingConnected
RECURSIVE AllTruthyFrom(_, _)
\* faulty variant: only the presence of a client is tested
AllTruthyFrom(sys, i) ==
    IF i > Len(sys) THEN TRUE
    ELSE IF ~Truthy(sys[i].client) THEN FALSE
    ELSE AllTruthyFrom(sys, i + 1)

AnyClient(sys) == AllTruthyFrom(sys, 1)

RECURSIVE AllFrom(_, _)
\* all(...) over the generator of line 81, stopping at the first falsy item
AllFrom(sys, i) ==
    IF i > Len(sys) THEN TRUE
    ELSE IF ~(Truthy(sys[i].client) /\ is_connected(sys[i].client)) THEN FALSE
    ELSE AllFrom(sys, i + 1)

\* line 81
isEverythingConnected(sys) == AllFrom(sys, 1)

\* a call of isEverythingConnected(), from any thread
IsEverythingConnected ==
    /\ retAll' = IF isEverythingConnected(systems) THEN "True" ELSE "False"
    /\ UNCHANGED <<systems, heap, supPc, cur, callerPc, inflight,
                   retIndex, retRef,
                   printed, waited, sleeps, api, fwdReturned>>

\* --------------------------------------------------- getPressureReadings
\* line 107: return self._pressures, the list object itself
getPressureReadings == PressuresRef

\* a call of getPressureReadings(), from any thread
GetPressureReadings ==
    /\ retRef' = getPressureReadings
    /\ UNCHANGED <<systems, heap, supPc, cur, callerPc, inflight,
                   retIndex, retAll,
                   printed, waited, sleeps, api, fwdReturned>>

\* ------------------------------------------- forwarding and mode methods
\* no call of a forwarding or mode method has been made
NoCall == [op |-> "none", args |-> <<>>, steps |-> <<>>, error |-> "None"]

\* what a method whose body is `pass` does: no step, and it returns None
PassBody == <<>>

\* a call of a forwarding or mode method, whose body is `pass`, as its caller
\* sees it
Call(op, args) ==
    [op |-> op, args |-> args, steps |-> PassBody, error |-> "None"]

\* the methods with the body `pass` that take part in no claim of their own
StubOps == {"sendSetpoint", "sendSetpointBatch", "setCallback",
            "addForwardingBatch", "sendConfig", "sendConfigBatch"}

\* (system_num, channel_num) arguments of the forwarding methods
Endpoints == {<<0, 0>>, <<1, 0>>}

\* lines 83-100, 109-114, 128-134, 153-172: pass
StubCall(op) ==
    /\ callerPc \in {"ready", "raised"}
    /\ UNCHANGED vars

\* lines 116-126: pass; the call returns None, whatever was requested before
AddForwarding(source, target) ==
    /\ callerPc \in {"ready", "raised"}
    /\ api' = Call("addForwarding", <<source, target>>)
    /\ fwdReturned' = fwdReturned \cup {<<source, target>>}
    /\ UNCHANGED <<systems, heap, supPc, cur, callerPc, inflight, retIndex,
                   retAll, retRef, printed, waited, sleeps>>

\* lines 136-145: pass
StopForwarding(source, target) ==
    /\ callerPc \in {"ready", "raised"}
    /\ api' = Call("stopForwarding", <<source, target>>)
    /\ fwdReturned' = fwdReturned \ {<<source, target>>}
    /\ UNCHANGED <<systems, heap, supPc, cur, callerPc, inflight, retIndex,
                   retAll, retRef, printed, waited, sleeps>>

\* lines 147-151: pass
ClearAllForwarding ==
    /\ callerPc \in {"ready", "raised"}
    /\ api' = Call("clearAllForwarding", <<>>)
    /\ fwdReturned' = {}
    /\ UNCHANGED <<systems, heap, supPc, cur, callerPc, inflight, retIndex,
                   retAll, retRef, printed, waited, sleeps>>

\* lines 174-194: pass; failing: reset_config holds an entry that fails
SetMode(failing) ==
    /\ callerPc \in {"ready", "raised"}
    /\ api' = Call("setMode", <<failing>>)
    /\ fwdReturned' = {}
    /\ UNCHANGED <<systems, heap, supPc, cur, callerPc, inflight, retIndex,
                   retAll, retRef, printed, waited, sleeps>>

\* a connected system sends a telemetry notification: _connect() has
\* subscribed to nothing (lines 67-70), no code of the class receives it
Notify(i) ==
    /\ is_connected(systems[i].client)
    /\ UNCHANGED vars

\* ------------------------------------------------------------------ spec
\* __init__, lines 22-25
Init ==
    /\ systems = <<>>
    /\ heap = [k \in {0} |-> <<>>]
    /\ supPc = "idle"
    /\ cur = 1
    /\ callerPc = "ready"
    /\ inflight = <<>>
    /\ retIndex = -1
    /\ retAll = "None"
    /\ retRef = -1
    /\ printed = ""
    /\ waited = <<>>
    /\ sleeps = 0
    /\ api = NoCall
    /\ fwdReturned = {}

Supervisor ==
    \/ PassRestart
    \/ ForStep
    \/ ScanFound
    \/ ScanNone
    \/ ScanRaise
    \/ ConnectOk
    \/ ConnectFail
    \/ ConnectRaise
    \/ SleepDone

Next ==
    \/ \E n \in Names : AddSystem(n, Channels(n))
    \/ Connect
    \/ Supervisor
    \/ \E i \in 1..Len(systems) : Drop(i)
    \/ IsEverythingConnected
    \/ GetPressureReadings

Spec == Init /\ [][Next]_vars

Api ==
    \/ \E op \in StubOps : StubCall(op)
    \/ \E source \in Endpoints : \E target \in Endpoints \ {source} :
          AddForwarding(source, target)
    \/ \E source \in Endpoints : \E target \in Endpoints \ {source} :
          StopForwarding(source, target)
    \/ ClearAllForwarding
    \/ \E failing \in BOOLEAN : SetMode(failing)
    \/ \E i \in 1..Len(systems) : Notify(i)

ApiNext == Next \/ Api

\* the whole class: the supervisor, and the methods whose body is `pass`
ApiSpec == Init /\ [][ApiNext]_vars

\* The event loop resumes the coroutine whenever the awaited call has
\* returned: scans, connects (bleak bounds both by a timeout) and sleeps end.
FairSpec == Spec /\ WF_vars(Supervisor)

\* ---------------------------------------------------------------- claims
ConnectedState(i) == systems[i].client = "up"
Running == supPc \in {"for", "scan", "connecting", "sleep"}

\* C1: in every reachable state isEverythingConnected() is true exactly when
\* every registered system is Connected (it has a client and that client's
\* session is alive), and false as soon as one registered system is not.
C1_AllConnectedIff ==
    isEverythingConnected(systems)
        <=> \A i \in 1..Len(systems) : ConnectedState(i)

\* a call that returned True with two systems registered and both still up
C1_Witness ==
    /\ Len(systems) = 2
    /\ retAll = "True"
    /\ \A i \in 1..Len(systems) : ConnectedState(i)

\* C2: connect() returns to its caller after starting the supervisor: while
\* the supervisor scans, connects or sleeps, the caller is not inside
\* connect().
C2_ConnectReturns == Running => callerPc # "in_connect"

\* C3: a connectivity failure of one system never stops the supervisor and
\* never reaches the caller of connect().
C3_FailuresAbsorbed == supPc # "raised" /\ callerPc # "raised"

\* C4: a registered system that is never discoverable is scanned again and
\* again for as long as the supervisor was started: from every state in which
\* the supervisor runs, a scan of that system follows.
C4_RetriesForever ==
    \A i \in 1..MaxSystems :
        (i <= Len(systems) /\ Running /\ Profile(i) = "absent")
            ~> (supPc = "scan" /\ cur = i)

\* C5: with two registered systems, a never discoverable and b discoverable
\* and connectable, b eventually is Connected once the supervisor is started,
\* in either registration order, and isEverythingConnected() is false in
\* every state.
ScenarioC5(a, b) ==
    /\ Len(systems) = 2
    /\ {a, b} = {1, 2}
    /\ Profile(a) = "absent"
    /\ Profile(b) = "reliable"

C5_OneNeverDiscoverable ==
    \A a \in 1..2, b \in 1..2 :
        /\ [](ScenarioC5(a, b) => ~isEverythingConnected(systems))
        /\ (ScenarioC5(a, b) /\ Running)
               ~> (ScenarioC5(a, b) /\ ConnectedState(b))

\* the undiscoverable system registered first, the other one Connected
C5_Witness ==
    /\ ScenarioC5(1, 2)
    /\ ConnectedState(2)
    /\ retAll = "False"

\* C6: whenever the session of a Connected system has dropped, the supervisor
\* scans for that system again, and a system that is discoverable and
\* connectable is Connected again.
DroppedAt(i) ==
    i <= Len(systems) /\ Running /\ systems[i].client = "dropped"

C6_DropLeadsToScan ==
    \A i \in 1..MaxSystems :
        /\ DroppedAt(i) ~> (supPc = "scan" /\ cur = i)
        /\ (DroppedAt(i) /\ Profile(i) = "reliable")
               ~> (i <= Len(systems) /\ ConnectedState(i))

\* C7: no system ever has two transport attempts (scan or connect) in flight.
C7_NoDuplicateAttempts ==
    \A i \in 1..Len(inflight) : inflight[i] <= 1

\* an attempt in flight for the second system while the session of the first
\* one has dropped
C7_Witness ==
    /\ Len(systems) = 2
    /\ inflight[2] = 1
    /\ systems[1].client = "dropped"

\* C8 as stated: a system holds a client only while it is connected.
C8_HandleOnlyWhileConnected ==
    \A i \in 1..Len(systems) :
        Truthy(systems[i].client) => is_connected(systems[i].client)

\* C8 as amended: a system holds a client while it is connected, after its
\* session has dropped, and, never connected, only while its connect attempt
\* is in flight or after that attempt raised; a connect attempt that returns
\* not connected leaves no client.
C8_HandleAmended ==
    \A i \in 1..Len(systems) :
        systems[i].client = "fresh"
            => cur = i /\ supPc \in {"connecting", "raised"}

\* a dropped session and a connect attempt in flight, both holding a client
C8_Witness ==
    /\ Len(systems) = 2
    /\ systems[1].client = "dropped"
    /\ systems[2].client = "fresh"
    /\ supPc = "connecting"

\* C9: what getPressureReadings() returned is an independent copy: no later
\* operation changes the value that was returned.
C9_SnapshotIndependent ==
    [][retRef # -1 /\ retRef' = retRef
          => Deref(heap', retRef) = Deref(heap, retRef)]_vars

\* C10: addSystem returns the number of systems registered before the call,
\* every step keeps the name and the channel count of every registered index,
\* and no index is removed.
C10_StableIndex ==
    [][ /\ Len(systems') >= Len(systems)
        /\ \A i \in 1..Len(systems) :
              /\ systems'[i].system_name = systems[i].system_name
              /\ systems'[i].channel_count = systems[i].channel_count
        /\ (Len(systems') > Len(systems) => retIndex' = Len(systems))
      ]_vars

\* index 1 was returned for the second system, which has since been connected
C10_Witness ==
    /\ Len(systems) = 2
    /\ retIndex = 1
    /\ systems[1].system_name # systems[2].system_name
    /\ ConnectedState(2)

\* C11: the pressure store holds one entry per registered system, in
\* registration order, and the entry of system i holds as many readings as the
\* channel count declared for system i.
C11_StoreShape ==
    LET store == Deref(heap, PressuresRef)
    IN /\ Len(store) = Len(systems)
       /\ \A i \in 1..Len(systems) :
             Len(store[i]) = systems[i].channel_count

\* two systems with different channel counts, the supervisor at work
C11_Witness ==
    /\ Len(systems) = 2
    /\ systems[1].channel_count = 1
    /\ systems[2].channel_count = 2
    /\ Len(Deref(heap, PressuresRef)[2]) = 2
    /\ ConnectedState(2)

\* the supervisor starts the scan of system cur, whose last attempt failed
RetryStarts ==
    supPc = "for" /\ supPc' = "scan" /\ waited[cur] >= 0

\* C12 as stated: a system whose attempt has failed is scanned again after 10
\* time units of sleep, however many systems are registered.
C12_FixedDelay ==
    [][RetryStarts => waited[cur] = 10]_vars

\* C12 as amended: between the failed attempt of a system and the next scan
\* for it, one sleep of 10 time units passes for every registered system.
C12_DelayPerPass ==
    [][RetryStarts => waited[cur] = 10 * Len(systems)]_vars

\* the second of two systems is about to be scanned again, 20 time units of
\* sleep after its attempt failed
C12_Witness ==
    /\ Len(systems) = 2
    /\ supPc = "for"
    /\ cur = 2
    /\ waited[2] = 20
    /\ ConnectedState(1)

\* the five steps of the docstring of setMode (lines 187-192)
ModeSteps ==
    <<"clearAllForwarding", "sendConfigBatch(reset_config)",
      "sleep(wait_time)", "addForwardingBatch(forwarding)",
      "sendConfigBatch(final_config)">>

\* C13: setMode executes its five steps in the fixed order, steps 3 to 5
\* also when an entry of reset_config fails.
C13_ModeStepsInOrder ==
    api.op = "setMode" => api.steps = ModeSteps

\* C14: once A->B was accepted, B->A is rejected with CycleRejected: the
\* addForwarding requests that returned without an error never hold a rule
\* together with its reverse.
C14_CycleRejected ==
    \A r \in fwdReturned : <<r[2], r[1]>> \notin fwdReturned

C15_ConnectedOnlyWhenSubscribed ==
    \A i \in 1..Len(systems) :
        (Truthy(systems[i].client) /\ is_connected(systems[i].client))
            => Subscribed(systems[i])

\* a connect attempt returns and the session is not connected
ConnectNotConnected ==
    /\ supPc = "connecting"
    /\ supPc' = "sleep"
    /\ ~is_connected(systems'[cur].client)

\* the turn of a system that holds no client is taken
TurnWithoutClient ==
    /\ supPc = "for"
    /\ cur <= Len(systems)
    /\ ~Truthy(systems[cur].client)
    /\ supPc' # supPc

C17_ConnectedLeftAlone ==
    [][\A i \in 1..Len(systems) :
          ConnectedState(i) =>
              /\ inflight[i] = 0
              /\ inflight'[i] = 0
              /\ systems'[i].client \in {"up", "dropped"}
      ]_vars

\* the first system is connected and its turn is the sleep alone: the last
\* line printed is the scan of the other system
C17_Witness ==
    /\ Len(systems) = 2
    /\ ConnectedState(1)
    /\ supPc = "sleep"
    /\ cur = 1
    /\ printed = "Scanned for device"

\* C18: the systems are handled one at a time in registration order: an
\* attempt starts only on the turn of its system and with no attempt in
\* flight, and the loop moves on by one system, after the sleep.
C18_OneAtATime ==
    [][ /\ \A j \in 1..Len(inflight) :
              inflight'[j] > inflight[j] =>
                  /\ supPc = "for"
                  /\ cur = j
                  /\ \A k \in 1..Len(inflight) : inflight[k] = 0
        /\ supPc \in {"scan", "connecting"} =>
              \A j \in 1..Len(inflight) : j # cur => inflight[j] = 0
        /\ cur' # cur =>
              \/ supPc = "sleep" /\ supPc' = "for" /\ cur' = cur + 1
              \/ supPc = "for" /\ cur > Len(systems) /\ cur' = 1
      ]_vars

\* the session of the second system has dropped; it is not scanned while the
\* connect attempt of the first system is in flight
C18_Witness ==
    /\ Len(systems) = 2
    /\ supPc = "connecting"
    /\ cur = 1
    /\ systems[2].client = "dropped"
    /\ inflight[2] = 0

\* C19: one sleep runs after the turn of each system, with or without an
\* attempt, so that a pass over N systems holds N sleeps, and a pass over no
\* system has no suspension point.
C19_OneSleepPerTurn ==
    /\ Running => sleeps = cur - 1
    /\ (supPc = "for" /\ cur > Len(systems)) => sleeps = Len(systems)
    /\ (Running /\ Len(systems) = 0) => supPc = "for"

\* the end of a pass over two systems, the first of them connected
C19_Witness ==
    /\ Len(systems) = 2
    /\ supPc = "for"
    /\ cur = 3
    /\ sleeps = 2
    /\ ConnectedState(1)
    /\ waited[2] = 10

====
